---------------------------- MODULE Spec2Model ----------------------------
(***************************************************************************)
(* A model of csv-to-array (src/src/index.ts): the BOM stripper, the       *)
(* delimiter detector, the row tokenizer (parseRows), the header resolver  *)
(* and the record projector of parseCSV, and the type inference            *)
(* (convertToJsTypes).                                                     *)
(*                                                                         *)
(* A JavaScript string is a sequence of one-character strings; JavaScript  *)
(* indexes from 0 and the model from 1, so the code's text[i] is the       *)
(* model's text[i + 1] and the loop "i < len" is "i <= Len(text)".         *)
(***************************************************************************)
EXTENDS Integers, Sequences, FiniteSets, TLC

VARIABLES
    pc,          \* position in parseCSV / parseRows
    input,       \* the text handed to parseCSV (toText's result)
    opts,        \* the CsvOptions of the call, defaults applied
    cleaned,     \* parseCSV: cleaned = stripBOM(text)
    delimiter,   \* parseCSV: delimiter (given or detected)
    tok,         \* parseRows' locals: i, field, row, inQuotes, lines
    headerNames, \* parseCSV: headerNames
    dataStart,   \* parseCSV: dataStart
    width,       \* parseCSV: width
    idx,         \* parseCSV: the projection loop's i
    out,         \* parseCSV: out
    res          \* result of a pure function applied to input

vars == <<pc, input, opts, cleaned, delimiter, tok, headerNames, dataStart,
          width, idx, out, res>>

---------------------------------------------------------------------------
(* Characters *)

LF == "\n"
CR == "\r"
TAB == "\t"
QUOTE == "\""
SPACE == " "
\* U+FEFF, one UTF-16 code unit
BOM == "<U+FEFF>"

\* What String.prototype.trim strips (ECMAScript WhiteSpace and
\* LineTerminator), restricted to the characters the model uses.  U+FEFF is
\* WhiteSpace in ECMAScript.
WhiteSpace == {SPACE, TAB, LF, CR, BOM}

Digits == <<"0", "1", "2", "3", "4", "5", "6", "7", "8", "9">>

IsDigit(ch) == \E k \in 1..Len(Digits) : Digits[k] = ch

DigitValue(ch) == (CHOOSE k \in 1..Len(Digits) : Digits[k] = ch) - 1

Upper == <<"A", "B", "E", "F", "L", "N", "R", "S", "T", "U", "X", "Y">>
Lower == <<"a", "b", "e", "f", "l", "n", "r", "s", "t", "u", "x", "y">>

\* String.prototype.toLowerCase on one character
LowerChar(ch) ==
    IF \E k \in 1..Len(Upper) : Upper[k] = ch
    THEN Lower[CHOOSE k \in 1..Len(Upper) : Upper[k] = ch]
    ELSE ch

ToLowerCase(s) == [k \in 1..Len(s) |-> LowerChar(s[k])]

\* String.prototype.trim
RECURSIVE TrimStart(_)
TrimStart(s) ==
    IF s # <<>> /\ Head(s) \in WhiteSpace THEN TrimStart(Tail(s)) ELSE s

RECURSIVE TrimEnd(_)
TrimEnd(s) ==
    IF s # <<>> /\ s[Len(s)] \in WhiteSpace
    THEN TrimEnd(SubSeq(s, 1, Len(s) - 1))
    ELSE s

Trim(s) == TrimEnd(TrimStart(s))

\* The decimal digits of a natural number, as `${i}` prints it
RECURSIVE ToDecimal(_)
ToDecimal(n) ==
    IF n < 10 THEN <<Digits[n + 1]>>
    ELSE Append(ToDecimal(n \div 10), Digits[(n % 10) + 1])

\* Concatenation of a sequence of strings
RECURSIVE Flatten(_)
Flatten(ps) == IF ps = <<>> THEN <<>> ELSE Head(ps) \o Flatten(Tail(ps))

SeqsUpTo(S, n) == UNION {[1..k -> S] : k \in 0..n}

\* The texts made of at most n pieces of P
TextsOver(P, n) == {Flatten(ps) : ps \in SeqsUpTo(P, n)}

---------------------------------------------------------------------------
(* parseRows: the row tokenizer *)

\* The locals of parseRows before the loop (i is the loop's index, 1-based)
TokInit == [i |-> 1, field |-> <<>>, row |-> <<>>, inQuotes |-> FALSE,
            lines |-> <<>>]

\* const pushField = () => { row.push(field); field = ""; }
PushField(s) == [s EXCEPT !.row = Append(s.row, s.field), !.field = <<>>]

\* A faulty variant of PushRow that keeps every row
PushRowKeepBlank(s, skipEmptyLines) ==
    [s EXCEPT !.lines = Append(s.lines, s.row), !.row = <<>>]

\* const pushRow = () => { if (!(skipEmptyLines && row.length === 1 &&
\*   row[0].trim() === "")) lines.push(row); row = []; }
PushRow(s, skipEmptyLines) ==
    [s EXCEPT
       !.lines = IF ~(skipEmptyLines /\ Len(s.row) = 1 /\ Trim(s.row[1]) = <<>>)
                 THEN Append(s.lines, s.row)
                 ELSE s.lines,
       !.row = <<>>]

\* const next = i + 1 < len ? text[i + 1] : "";  ("" is modelled as <<>>,
\* a one-character string as <<ch>>)
NextChar(text, s) == IF s.i + 1 <= Len(text) THEN <<text[s.i + 1]>> ELSE <<>>

\* The guard of the start-of-line comment rule.  comment is a string (<<>>
\* when the option is absent: undefined and "" are both falsy), ch one
\* character: ch === comment holds only for a one-character comment.
IsCommentStart(text, comment, s) ==
    /\ ~s.inQuotes
    /\ s.field = <<>>
    /\ Len(s.row) = 0
    /\ comment # <<>>
    /\ <<text[s.i]>> = comment

\* The index of the next "\n" at or after i, Len(text) + 1 when there is none:
\* while (i < len && text[i] !== "\n") i++;
RECURSIVE LineFeedFrom(_, _)
LineFeedFrom(text, i) ==
    IF i <= Len(text) /\ text[i] # LF THEN LineFeedFrom(text, i + 1) ELSE i

\* The comment rule: skip to the line feed; continue (the loop's i++ steps
\* over the line feed)
SkipComment(text, s) == [s EXCEPT !.i = LineFeedFrom(text, s.i) + 1]

\* A faulty variant of QuoteChar without the escaped-quote rule
QuoteCharNoEscape(text, s) ==
    [s EXCEPT !.inQuotes = ~s.inQuotes, !.i = s.i + 1]

\* if (ch === '"') { if (inQuotes && next === '"') { field += '"'; i++; }
\*                   else inQuotes = !inQuotes; continue; }
QuoteChar(text, s) ==
    IF s.inQuotes /\ NextChar(text, s) = <<QUOTE>>
    THEN [s EXCEPT !.field = Append(s.field, QUOTE), !.i = s.i + 2]
    ELSE [s EXCEPT !.inQuotes = ~s.inQuotes, !.i = s.i + 1]

\* if (!inQuotes && ch === d) { pushField(); continue; }
IsDelimiter(text, d, s) == ~s.inQuotes /\ <<text[s.i]>> = d

DelimiterChar(s) == [PushField(s) EXCEPT !.i = s.i + 1]

\* A faulty variant of IsLineEnd that forgets the quoting state
IsLineEndInQuotes(text, s) == text[s.i] \in {LF, CR}

\* if (!inQuotes && (ch === "\n" || ch === "\r"))
IsLineEnd(text, s) == ~s.inQuotes /\ text[s.i] \in {LF, CR}

\* A faulty variant of LineEnd that takes "\r\n" for two line endings
LineEndNoCRLF(text, skipEmptyLines, s) ==
    [PushRow(PushField(s), skipEmptyLines) EXCEPT !.i = s.i + 1]

\* { if (ch === "\r" && next === "\n") i++; pushField(); pushRow(); continue; }
LineEnd(text, skipEmptyLines, s) ==
    [PushRow(PushField(s), skipEmptyLines) EXCEPT
       !.i = IF text[s.i] = CR /\ NextChar(text, s) = <<LF>>
             THEN s.i + 2 ELSE s.i + 1]

\* field += ch;
OtherChar(text, s) ==
    [s EXCEPT !.field = Append(s.field, text[s.i]), !.i = s.i + 1]

\* One iteration of the for loop (the rules in the code's order)
LoopBody(text, d, o, s) ==
    IF IsCommentStart(text, o.comment, s) THEN SkipComment(text, s)
    ELSE IF text[s.i] = QUOTE THEN QuoteChar(text, s)
    ELSE IF IsDelimiter(text, d, s) THEN DelimiterChar(s)
    ELSE IF IsLineEnd(text, s) THEN LineEnd(text, o.skipEmptyLines, s)
    ELSE OtherChar(text, s)

\* A faulty variant of EndOfInput that emits the pending row unconditionally
EndOfInputAlways(skipEmptyLines, s) == PushRow(PushField(s), skipEmptyLines)

\* After the loop: pushField(); if (row.length > 1 || row[0] !== "") pushRow();
EndOfInput(skipEmptyLines, s) ==
    LET t == PushField(s) IN
    IF Len(t.row) > 1 \/ t.row[1] # <<>> THEN PushRow(t, skipEmptyLines)
    ELSE t

\* The for loop from state s on
RECURSIVE RunLoop(_, _, _, _)
RunLoop(text, d, o, s) ==
    IF s.i <= Len(text) THEN RunLoop(text, d, o, LoopBody(text, d, o, s))
    ELSE s

\* parseRows(text, delimiter, {comment, skipEmptyLines}): the rows returned
ParseRows(text, d, o) ==
    EndOfInput(o.skipEmptyLines, RunLoop(text, d, o, TokInit)).lines

---------------------------------------------------------------------------
(* stripBOM and detectDelimiter *)

\* s.charCodeAt(0) === 0xfeff ? s.slice(1) : s
StripBOM(s) == IF s # <<>> /\ s[1] = BOM THEN Tail(s) ELSE s

\* const candidates = [",", ";", "\t", "|"];
Candidates == <<",", ";", TAB, "|">>

\* The limit given to split: s.split(/\r?\n/, 5)
SampleLimit == 5

\* s.split(/\r?\n/) from position k on, cur being the piece read so far: a
\* "\n" ends the piece, and the "\r" right before it belongs to the separator
RECURSIVE SplitFrom(_, _, _)
SplitFrom(s, k, cur) ==
    IF k > Len(s) THEN <<cur>>
    ELSE IF s[k] = LF
         THEN <<IF cur # <<>> /\ cur[Len(cur)] = CR
                THEN SubSeq(cur, 1, Len(cur) - 1) ELSE cur>>
              \o SplitFrom(s, k + 1, <<>>)
         ELSE SplitFrom(s, k + 1, Append(cur, s[k]))

SplitLines(s) == SplitFrom(s, 1, <<>>)

\* array.filter(Boolean) on strings: the empty string is falsy
RECURSIVE FilterNonEmpty(_)
FilterNonEmpty(ls) ==
    IF ls = <<>> THEN <<>>
    ELSE IF Head(ls) = <<>> THEN FilterNonEmpty(Tail(ls))
         ELSE <<Head(ls)>> \o FilterNonEmpty(Tail(ls))

\* const sample = s.split(/\r?\n/, 5).filter(Boolean): the limit cuts the
\* pieces first, the filter drops the empty ones after
Sample(s) ==
    LET ls == SplitLines(s)
    IN  FilterNonEmpty(SubSeq(ls, 1, IF Len(ls) < SampleLimit THEN Len(ls)
                                     ELSE SampleLimit))

\* line.split(d).length for a one-character d: the occurrences of d plus one
Columns(line, d) == Cardinality({k \in 1..Len(line) : line[k] = d}) + 1

\* cols.reduce((a, b) => a + b, 0) over cols = sample.map(line => ...)
RECURSIVE SumColumns(_, _)
SumColumns(sample, d) ==
    IF sample = <<>> THEN 0
    ELSE Columns(Head(sample), d) + SumColumns(Tail(sample), d)

\* A faulty variant of AvgGreater that lets an equal average replace the best
AvgGreaterOrEqual(sum, n, max) == n > 0 /\ sum * max.den >= max.num * n

\* avg > maxColumns, avg being sum / n and maxColumns the fraction num / den;
\* for an empty sample avg is 0 / 0 = NaN, and NaN > x is false
AvgGreater(sum, n, max) == n > 0 /\ sum * max.den > max.num * n

\* for (const d of candidates) { ... if (avg > maxColumns) { maxColumns = avg;
\* best = d; } } return best;  from candidate k on
RECURSIVE DetectLoop(_, _, _, _)
DetectLoop(sample, k, best, max) ==
    IF k > Len(Candidates) THEN best
    ELSE LET sum == SumColumns(sample, Candidates[k])
             n == Len(sample)
         IN  IF AvgGreater(sum, n, max)
             THEN DetectLoop(sample, k + 1, Candidates[k],
                             [num |-> sum, den |-> n])
             ELSE DetectLoop(sample, k + 1, best, max)

\* detectDelimiter(s): let best = ","; let maxColumns = 1;
DetectDelimiter(s) == DetectLoop(Sample(s), 1, ",", [num |-> 1, den |-> 1])

---------------------------------------------------------------------------
(* Values of cells: string, number, boolean, null, undefined *)

Val(t, s, b, neg, mant, exp) ==
    [t |-> t, s |-> s, b |-> b, neg |-> neg, mant |-> mant, exp |-> exp]

StrV(s) == Val("string", s, FALSE, FALSE, 0, 0)
BoolV(b) == Val("boolean", <<>>, b, FALSE, 0, 0)
NullV == Val("null", <<>>, FALSE, FALSE, 0, 0)
UndefV == Val("undefined", <<>>, FALSE, FALSE, 0, 0)

\* A number is (-1)^neg * mant * 10^exp with mant not a multiple of 10, or
\* mant = 0 and exp = 0 (+0 and -0 differ).  Distinct decimals of at most 15
\* significant digits in the normal range are distinct doubles, so this form
\* identifies Number(s) for the strings of the model.
RECURSIVE Normalize(_, _, _)
Normalize(neg, mant, exp) ==
    IF mant = 0 THEN Val("number", <<>>, FALSE, neg, 0, 0)
    ELSE IF mant % 10 = 0 THEN Normalize(neg, mant \div 10, exp + 1)
    ELSE Val("number", <<>>, FALSE, neg, mant, exp)

RECURSIVE ToNat(_)
ToNat(ds) ==
    IF ds = <<>> THEN 0
    ELSE 10 * ToNat(SubSeq(ds, 1, Len(ds) - 1)) + DigitValue(ds[Len(ds)])

\* The index after the longest run of digits of s that starts at k
RECURSIVE DigitsEnd(_, _)
DigitsEnd(s, k) ==
    IF k <= Len(s) /\ IsDigit(s[k]) THEN DigitsEnd(s, k + 1) ELSE k

\* /^-?\d+(\.\d+)?([eE][+-]?\d+)?$/ on s: whether it matches, and the parts
NumberParts(s) ==
    LET i0 == IF s # <<>> /\ s[1] = "-" THEN 2 ELSE 1
        i1 == DigitsEnd(s, i0)
        hasFrac == i1 <= Len(s) /\ s[i1] = "."
        f1 == IF hasFrac THEN DigitsEnd(s, i1 + 1) ELSE i1
        hasExp == f1 <= Len(s) /\ s[f1] \in {"e", "E"}
        e0 == IF hasExp /\ f1 + 1 <= Len(s) /\ s[f1 + 1] \in {"+", "-"}
              THEN f1 + 2 ELSE f1 + 1
        e1 == IF hasExp THEN DigitsEnd(s, e0) ELSE f1
    IN  [ok |-> /\ i1 > i0
                /\ (hasFrac => f1 > i1 + 1)
                /\ (hasExp => e1 > e0)
                /\ e1 = Len(s) + 1,
         neg |-> i0 = 2,
         int |-> SubSeq(s, i0, i1 - 1),
         frac |-> IF hasFrac THEN SubSeq(s, i1 + 1, f1 - 1) ELSE <<>>,
         expNeg |-> hasExp /\ f1 + 1 <= Len(s) /\ s[f1 + 1] = "-",
         expDigits |-> IF hasExp THEN SubSeq(s, e0, e1 - 1) ELSE <<>>]

\* Number(s) for an s the pattern matches (never NaN)
ToNumber(p) ==
    Normalize(p.neg, ToNat(p.int \o p.frac),
              (IF p.expNeg THEN 0 - ToNat(p.expDigits) ELSE ToNat(p.expDigits))
              - Len(p.frac))

\* convertToJsTypes(v)
ConvertToJsTypes(v) ==
    IF v.t \in {"null", "undefined"} THEN v
    ELSE IF v.t # "string" THEN v
    ELSE LET s == Trim(v.s) IN
         IF s = <<>> THEN StrV(<<>>)
         ELSE IF ToLowerCase(s) \in {<<"t", "r", "u", "e">>,
                                     <<"f", "a", "l", "s", "e">>}
              THEN BoolV(ToLowerCase(s) = <<"t", "r", "u", "e">>)
         ELSE IF ToLowerCase(s) = <<"n", "u", "l", "l">> THEN NullV
         ELSE IF NumberParts(s).ok THEN ToNumber(NumberParts(s))
         ELSE StrV(s)

---------------------------------------------------------------------------
(* normalizeHeaders, the records and the projection of parseCSV *)

\* v.replace(/^\uFEFF/, "")
StripLeadingBOM(v) == IF v # <<>> /\ v[1] = BOM THEN Tail(v) ELSE v

\* normalizeHeaders(headers, preserve)
NormalizeHeaders(headers, preserve) ==
    [k \in 1..Len(headers) |->
        LET v == StripLeadingBOM(Trim(headers[k]))
        IN  IF preserve THEN v ELSE ToLowerCase(v)]

\* rows[0].map((_, i) => `c${i}`), and the names pushed when widening
Synthesized(i) == <<"c">> \o ToDecimal(i)

\* widestRow(rows)
RECURSIVE WidestFrom(_, _, _)
WidestFrom(rows, k, w) ==
    IF k > Len(rows) THEN w
    ELSE WidestFrom(rows, k + 1, IF Len(rows[k]) > w THEN Len(rows[k]) ELSE w)

WidestRow(rows) == WidestFrom(rows, 1, 0)

\* Math.max on two numbers
Max(a, b) == IF a > b THEN a ELSE b

\* Lines 46-57: the header names before widening.  opts.headers is
\* [mode |-> "true" | "false" | "array", names |-> the array]
ResolvedHeaders(rows, o) ==
    IF o.headers.mode = "array"
    THEN NormalizeHeaders(o.headers.names, o.preserveHeaderCase)
    ELSE IF o.headers.mode = "false"
    THEN [k \in 1..Len(rows[1]) |-> Synthesized(k - 1)]
    ELSE NormalizeHeaders(rows[1], o.preserveHeaderCase)

\* A faulty variant of DataStart that keeps the first row when headers is an array
DataStartKeepFirst(o) == IF o.headers.mode = "true" THEN 1 ELSE 0

\* Lines 47-57: dataStart (the code's 0-based index)
DataStart(o) == IF o.headers.mode = "false" THEN 0 ELSE 1

\* Lines 60-62: for (let i = headerNames.length; i < width; i++)
\*   headerNames.push(`c${i}`)
Widen(names, w) ==
    [k \in 1..Max(Len(names), w) |->
        IF k <= Len(names) THEN names[k] ELSE Synthesized(k - 1)]

\* A faulty variant of Assign that adds a property even when the key exists
AssignAppend(csvRow, key, v) == Append(csvRow, [key |-> key, value |-> v])

\* A CsvRow is the sequence of its own properties, in insertion order.
\* csvRow[key] = v: an existing key keeps its place and takes the value.
\* (The reserved key "__proto__", which an assignment does not store as a
\* property, is outside the header names of the model.)
Assign(csvRow, key, v) ==
    IF \E k \in 1..Len(csvRow) : csvRow[k].key = key
    THEN [k \in 1..Len(csvRow) |->
            IF csvRow[k].key = key THEN [key |-> key, value |-> v]
            ELSE csvRow[k]]
    ELSE Append(csvRow, [key |-> key, value |-> v])

\* Lines 70-72, c being the code's 0-based column:
\*   let cell = row[c];
\*   if (typeof cell === "string" && trimCells) cell = cell.trim();
\*   inferTypes ? convertToJsTypes(cell) : cell ?? defval
\* (the conditional binds weaker than ??: defval is used only without
\* inferTypes)
CellValue(row, c, o) ==
    LET raw == IF c + 1 <= Len(row) THEN StrV(row[c + 1]) ELSE UndefV
        cell == IF raw.t = "string" /\ o.trimCells THEN StrV(Trim(raw.s))
                ELSE raw
    IN  IF o.inferTypes THEN ConvertToJsTypes(cell)
        ELSE IF cell.t \in {"null", "undefined"} THEN o.defval
        ELSE cell

\* Lines 67-73: the record of one row, from column c on
RECURSIVE ProjectFrom(_, _, _, _, _, _)
ProjectFrom(row, names, w, o, c, csvRow) ==
    IF c >= w THEN csvRow
    ELSE ProjectFrom(row, names, w, o, c + 1,
                     Assign(csvRow, names[c + 1], CellValue(row, c, o)))

ProjectRow(row, names, w, o) == ProjectFrom(row, names, w, o, 0, <<>>)

\* opts.delimiter ?? detectDelimiter(cleaned); opts.delimiter is
\* [given |-> BOOLEAN, value |-> the string]
ChosenDelimiter(text, o) ==
    IF o.delimiter.given THEN o.delimiter.value ELSE <<DetectDelimiter(text)>>

\* parseCSV on a text (lines 37-76), as a function
ParseCSV(text, o) ==
    LET c == StripBOM(text)
        rows == ParseRows(c, ChosenDelimiter(c, o), o)
    IN  IF Len(rows) = 0 THEN <<>>
        ELSE LET names0 == ResolvedHeaders(rows, o)
                 w == Max(Len(names0), WidestRow(rows))
                 names == Widen(names0, w)
             IN  [k \in 1..(Len(rows) - DataStart(o)) |->
                     ProjectRow(rows[k + DataStart(o)], names, w, o)]

---------------------------------------------------------------------------
(* parseCSV as a state machine: one call, from the input to the return *)

Pieces == {<<"a">>, <<",">>, <<LF>>, <<QUOTE>>, <<"#">>}
MaxPieces == 4
Texts == TextsOver(Pieces, MaxPieces)

NoDelimiter == [given |-> FALSE, value |-> <<>>]
HeadersTrue == [mode |-> "true", names |-> <<>>]
HeadersFalse == [mode |-> "false", names |-> <<>>]
HeadersArray(names) == [mode |-> "array", names |-> names]

\* The options after the defaults of lines 27-33 are applied
Options ==
    [delimiter : {NoDelimiter},
     headers : {HeadersTrue, HeadersFalse, HeadersArray(<<<<"X">>, <<"y">>>>)},
     preserveHeaderCase : {FALSE},
     comment : {<<>>, <<"#">>},
     skipEmptyLines : BOOLEAN,
     defval : {StrV(<<"-">>)},
     inferTypes : BOOLEAN,
     trimCells : BOOLEAN]

Unset ==
    /\ cleaned = <<>>
    /\ delimiter = <<>>
    /\ tok = TokInit
    /\ headerNames = <<>>
    /\ dataStart = 0
    /\ width = 0
    /\ idx = 0
    /\ out = <<>>
    /\ res = <<>>

Init ==
    /\ pc = "start"
    /\ input \in Texts
    /\ opts \in Options
    /\ Unset

\* Lines 37-38: const cleaned = stripBOM(text); const delimiter = ...
Prepare ==
    /\ pc = "start"
    /\ cleaned' = StripBOM(input)
    /\ delimiter' = ChosenDelimiter(StripBOM(input), opts)
    /\ tok' = TokInit
    /\ pc' = "tokenize"
    /\ UNCHANGED <<input, opts, headerNames, dataStart, width, idx, out, res>>

\* The condition of the loop of parseRows: i < text.length
InLoop == pc = "tokenize" /\ tok.i <= Len(cleaned)

TokUnchanged ==
    UNCHANGED <<pc, input, opts, cleaned, delimiter, headerNames, dataStart,
                width, idx, out, res>>

\* One iteration of the loop of parseRows, by the branch it takes
TokComment ==
    /\ InLoop
    /\ IsCommentStart(cleaned, opts.comment, tok)
    /\ tok' = SkipComment(cleaned, tok)
    /\ TokUnchanged

TokQuote ==
    /\ InLoop
    /\ ~IsCommentStart(cleaned, opts.comment, tok)
    /\ cleaned[tok.i] = QUOTE
    /\ tok' = QuoteChar(cleaned, tok)
    /\ TokUnchanged

TokDelimiter ==
    /\ InLoop
    /\ ~IsCommentStart(cleaned, opts.comment, tok)
    /\ cleaned[tok.i] # QUOTE
    /\ IsDelimiter(cleaned, delimiter, tok)
    /\ tok' = DelimiterChar(tok)
    /\ TokUnchanged

TokLineEnd ==
    /\ InLoop
    /\ ~IsCommentStart(cleaned, opts.comment, tok)
    /\ cleaned[tok.i] # QUOTE
    /\ ~IsDelimiter(cleaned, delimiter, tok)
    /\ IsLineEnd(cleaned, tok)
    /\ tok' = LineEnd(cleaned, opts.skipEmptyLines, tok)
    /\ TokUnchanged

TokOther ==
    /\ InLoop
    /\ ~IsCommentStart(cleaned, opts.comment, tok)
    /\ cleaned[tok.i] # QUOTE
    /\ ~IsDelimiter(cleaned, delimiter, tok)
    /\ ~IsLineEnd(cleaned, tok)
    /\ tok' = OtherChar(cleaned, tok)
    /\ TokUnchanged

\* Lines 216-218: after the loop, the pending field and row
TokEnd ==
    /\ pc = "tokenize"
    /\ tok.i > Len(cleaned)
    /\ tok' = EndOfInput(opts.skipEmptyLines, tok)
    /\ pc' = "resolve"
    /\ UNCHANGED <<input, opts, cleaned, delimiter, headerNames, dataStart,
                   width, idx, out, res>>

\* const rows = parseRows(...)
rows == tok.lines

\* Line 44: if (!rows.length) return [];
ReturnEmpty ==
    /\ pc = "resolve"
    /\ Len(rows) = 0
    /\ out' = <<>>
    /\ pc' = "done"
    /\ UNCHANGED <<input, opts, cleaned, delimiter, tok, headerNames,
                   dataStart, width, idx, res>>

\* Lines 46-62: the header names, dataStart, width and the widening
ResolveHeaders ==
    /\ pc = "resolve"
    /\ Len(rows) > 0
    /\ LET names == ResolvedHeaders(rows, opts)
           w == Max(Len(names), WidestRow(rows))
       IN  /\ width' = w
           /\ headerNames' = Widen(names, w)
    /\ dataStart' = DataStart(opts)
    /\ idx' = DataStart(opts)
    /\ out' = <<>>
    /\ pc' = "project"
    /\ UNCHANGED <<input, opts, cleaned, delimiter, tok, res>>

\* Lines 65-75: one iteration of for (let r = dataStart; r < rows.length; r++)
ProjectStep ==
    /\ pc = "project"
    /\ idx < Len(rows)
    /\ out' = Append(out, ProjectRow(rows[idx + 1], headerNames, width, opts))
    /\ idx' = idx + 1
    /\ UNCHANGED <<pc, input, opts, cleaned, delimiter, tok, headerNames,
                   dataStart, width, res>>

\* Line 76: return out;
Return ==
    /\ pc = "project"
    /\ idx >= Len(rows)
    /\ pc' = "done"
    /\ UNCHANGED <<input, opts, cleaned, delimiter, tok, headerNames,
                   dataStart, width, idx, out, res>>

Next ==
    \/ Prepare
    \/ TokComment
    \/ TokQuote
    \/ TokDelimiter
    \/ TokLineEnd
    \/ TokOther
    \/ TokEnd
    \/ ReturnEmpty
    \/ ResolveHeaders
    \/ ProjectStep
    \/ Return

Spec == Init /\ [][Next]_vars

---------------------------------------------------------------------------
(* Properties of parseCSV *)

\* record[key]
Lookup(csvRow, key) ==
    csvRow[CHOOSE k \in 1..Len(csvRow) : csvRow[k].key = key].value

HasKey(csvRow, key) == \E k \in 1..Len(csvRow) : csvRow[k].key = key

\* Column c (0-based) is the last column that carries its header name
LastOfName(c) ==
    \A c2 \in (c + 1)..(width - 1) : headerNames[c2 + 1] # headerNames[c + 1]

\* The row the k-th record was made from
DataRow(k) == rows[dataStart + k]

\* The number of header names before widening
headerCount == Len(ResolvedHeaders(rows, opts))

\* C1: in every returned record, a header position beyond the end of the row
\* holds defval (whatever inferTypes is).
C1_MissingCellsHoldDefval ==
    pc = "done" =>
        \A k \in 1..Len(out) : \A c \in 0..(width - 1) :
            (c >= Len(DataRow(k)) /\ LastOfName(c))
                => Lookup(out[k], headerNames[c + 1]) = opts.defval

C4_OneRecordPerDataRow ==
    /\ pc = "project" => Len(out) = idx - dataStart
    /\ (pc = "done" /\ Len(rows) > 0) =>
        LET first == IF opts.headers.mode = "false" THEN 0 ELSE 1 IN
        /\ Len(out) = Len(rows) - first
        /\ \A k \in 1..Len(out) : \A c \in 1..Len(rows[first + k]) :
              /\ opts.headers.mode = "false" =>
                    /\ Head(headerNames[c]) = "c"
                    /\ ToNat(Tail(headerNames[c])) = c - 1
              /\ (~opts.inferTypes /\ LastOfName(c - 1)) =>
                    Lookup(out[k], headerNames[c])
                        = StrV(IF opts.trimCells THEN Trim(rows[first + k][c])
                               ELSE rows[first + k][c])

\* A header row and two different data rows give two different records
C4_Witness ==
    /\ pc = "done"
    /\ opts.headers.mode = "true"
    /\ Len(rows) = 3
    /\ Len(out) = 2
    /\ out[1] # out[2]

\* A variant that every step of a call decreases
Measure ==
    CASE pc = "start" -> 3 * Len(input) + 10
      [] pc = "tokenize" -> 2 * (Len(cleaned) + 1 - tok.i) + Len(cleaned) + 8
      [] pc = "resolve" -> Len(rows) + 3
      [] pc = "project" -> Len(rows) - idx + 1
      [] OTHER -> 0

\* C8: parseCSV throws on no input and loops on none: every step decreases
\* a non-negative variant, every iteration of the tokenizer advances, inside
\* quotes every character but the quote is field content (an unterminated
\* quote consumes the rest), and the call returns records that have a key
\* for every header position (the empty text returns no record).
C8_AlwaysReturnsRecords ==
    /\ [][Measure' < Measure /\ Measure' >= 0]_vars
    /\ [](InLoop => LoopBody(cleaned, delimiter, opts, tok).i > tok.i)
    /\ [][(InLoop /\ tok.inQuotes /\ cleaned[tok.i] # QUOTE)
            => tok' = [tok EXCEPT !.field = Append(tok.field, cleaned[tok.i]),
                                  !.i = tok.i + 1]]_vars
    /\ [](pc = "done" =>
            /\ cleaned = <<>> => out = <<>>
            /\ \A k \in 1..Len(out) : \A c \in 1..width :
                  HasKey(out[k], headerNames[c]))

\* A call that ends inside an unterminated quote, with a ragged row
C8_Witness ==
    /\ pc = "done"
    /\ tok.inQuotes
    /\ Len(out) > 0
    /\ \E k \in 1..Len(rows) : Len(rows[k]) < width

---------------------------------------------------------------------------
(* parseRows alone, on texts with CR and white space *)

TokPieces == {<<"a">>, <<",">>, <<LF>>, <<CR>>, <<QUOTE>>, <<"#">>, <<SPACE>>}
MaxTokPieces == 4

TokOptions ==
    [comment : {<<>>, <<"#">>, <<"#", "#">>}, skipEmptyLines : BOOLEAN]

InitTok ==
    /\ pc = "tokenize"
    /\ input \in TextsOver(TokPieces, MaxTokPieces)
    /\ cleaned = input
    /\ delimiter = <<",">>
    /\ opts \in TokOptions
    /\ tok = TokInit
    /\ headerNames = <<>>
    /\ dataStart = 0
    /\ width = 0
    /\ idx = 0
    /\ out = <<>>
    /\ res = <<>>

NextTok ==
    \/ TokComment
    \/ TokQuote
    \/ TokDelimiter
    \/ TokLineEnd
    \/ TokOther
    \/ TokEnd

SpecTok == InitTok /\ [][NextTok]_vars

\* The index of the first line feed of cleaned at or after i, 0 when none
FirstLineFeed(i) ==
    IF \E j \in i..Len(cleaned) : cleaned[j] = LF
    THEN CHOOSE j \in i..Len(cleaned) :
            /\ cleaned[j] = LF
            /\ \A j2 \in i..(j - 1) : cleaned[j2] # LF
    ELSE 0

\* C5: when a comment prefix is configured and, outside quotes with an empty
\* field and an empty row, the current character is the first character of
\* the prefix, the iteration skips up to and including the next line feed
\* (to the end when there is none) and emits no field and no row.
C5_CommentLineSkipped ==
    [][(/\ InLoop
        /\ opts.comment # <<>>
        /\ ~tok.inQuotes
        /\ tok.field = <<>>
        /\ tok.row = <<>>
        /\ cleaned[tok.i] = opts.comment[1])
       => /\ tok'.field = <<>>
          /\ tok'.row = <<>>
          /\ tok'.lines = tok.lines
          /\ tok'.inQuotes = tok.inQuotes
          /\ IF FirstLineFeed(tok.i) # 0
             THEN tok'.i = FirstLineFeed(tok.i) + 1
             ELSE tok'.i > Len(cleaned)]_vars

\* The row that closing the current field at the end of the input completes
PendingRow == Append(tok.row, tok.field)

AllWhiteSpace(s) == \A k \in 1..Len(s) : s[k] \in WhiteSpace

\* C10 as stated: at the end of the input the pending row is emitted if and
\* only if it has more than one field or its single field is non-empty,
\* whatever skipEmptyLines is.
C10_EndEmitsIgnoringSkip ==
    [][(pc = "tokenize" /\ tok.i > Len(cleaned))
       => tok'.lines = IF Len(PendingRow) > 1 \/ PendingRow[1] # <<>>
                       THEN Append(tok.lines, PendingRow)
                       ELSE tok.lines]_vars

\* C10 amended: at the end of the input the field is closed, and the pending
\* row is emitted if and only if it has more than one field or its single
\* field is non-empty, and it is not a row that skipEmptyLines discards (one
\* field of white space only); a trailing line terminator adds no row.
C10_EndEmitsUnlessSkipped ==
    [][(pc = "tokenize" /\ tok.i > Len(cleaned))
       => /\ tok'.lines =
                IF /\ Len(PendingRow) > 1 \/ PendingRow[1] # <<>>
                   /\ ~(/\ opts.skipEmptyLines
                        /\ Len(PendingRow) = 1
                        /\ AllWhiteSpace(PendingRow[1]))
                THEN Append(tok.lines, PendingRow)
                ELSE tok.lines
          /\ (tok.field = <<>> /\ tok.row = <<>>) => tok'.lines = tok.lines
          /\ tok'.field = <<>>]_vars

\* Without skipEmptyLines, a last line of one space is emitted as a row
C10_Witness ==
    /\ pc = "resolve"
    /\ ~opts.skipEmptyLines
    /\ Len(cleaned) = 3
    /\ cleaned[2] = LF
    /\ cleaned[3] = SPACE
    /\ Len(tok.lines) = 2
    /\ tok.lines[2] = <<<<SPACE>>>>

\* A row of exactly one field whose trimmed value is empty
IsBlankRow(r) == Len(r) = 1 /\ AllWhiteSpace(r[1])

\* The tokenizer is about to close a row: at a line end outside quotes, or
\* at the end of the input
ClosesRow ==
    \/ InLoop /\ ~tok.inQuotes /\ cleaned[tok.i] \in {LF, CR}
    \/ pc = "tokenize" /\ tok.i > Len(cleaned)

\* C11: with skipEmptyLines, at every point of tokenizing and at its end the
\* completed rows hold no row of exactly one field whose trimmed value is
\* empty; a closed row is discarded only in that case, every other closed
\* row is appended (in input order), and no other step changes the rows.
C11_NoBlankRowWhenSkipping ==
    /\ [](opts.skipEmptyLines =>
            \A k \in 1..Len(tok.lines) : ~IsBlankRow(tok.lines[k]))
    /\ [][(opts.skipEmptyLines /\ ClosesRow)
            => tok'.lines = IF IsBlankRow(PendingRow) THEN tok.lines
                            ELSE Append(tok.lines, PendingRow)]_vars
    /\ [][(opts.skipEmptyLines /\ ~ClosesRow) => tok'.lines = tok.lines]_vars

\* With skipEmptyLines, a blank line between two lines: two rows, in order
C11_Witness ==
    /\ pc = "resolve"
    /\ opts.skipEmptyLines
    /\ Len(cleaned) = 4
    /\ cleaned[2] = LF
    /\ cleaned[3] = LF
    /\ tok.lines = <<<<<<cleaned[1]>>>>, <<<<cleaned[4]>>>>>>

---------------------------------------------------------------------------
(* Round trip of quoted fields through parseRows *)

ContentPieces == {<<"a">>, <<",">>, <<LF>>, <<CR>>, <<QUOTE>>, <<"#">>}
MaxContentPieces == 3

\* The contents with a delimiter, a CR, a LF or a quote
SpecialContents ==
    {c \in TextsOver(ContentPieces, MaxContentPieces) :
        \E k \in 1..Len(c) : c[k] \in {",", LF, CR, QUOTE}}

\* The content with every quote doubled
RECURSIVE DoubleQuotes(_)
DoubleQuotes(c) ==
    IF c = <<>> THEN <<>>
    ELSE (IF Head(c) = QUOTE THEN <<QUOTE, QUOTE>> ELSE <<Head(c)>>)
         \o DoubleQuotes(Tail(c))

Quoted(c) == <<QUOTE>> \o DoubleQuotes(c) \o <<QUOTE>>

\* A row of quoted fields, joined by the delimiter
RECURSIVE WrittenRow(_, _)
WrittenRow(fields, d) ==
    IF Len(fields) = 1 THEN Quoted(fields[1])
    ELSE Quoted(Head(fields)) \o d \o WrittenRow(Tail(fields), d)

\* input is the row of field contents that is written
InitQuote ==
    /\ pc = "write"
    /\ \E c \in SpecialContents :
          input \in {<<c>>, <<c, <<"a">>>>, <<<<"a">>, c>>}
    /\ opts \in [comment : {<<>>, <<"#">>}, skipEmptyLines : BOOLEAN]
    /\ delimiter = <<",">>
    /\ cleaned = <<>>
    /\ tok = TokInit
    /\ headerNames = <<>>
    /\ dataStart = 0
    /\ width = 0
    /\ idx = 0
    /\ out = <<>>
    /\ res = <<>>

WriteQuoted ==
    /\ pc = "write"
    /\ \E term \in {<<>>, <<LF>>, <<CR, LF>>} :
          cleaned' = WrittenRow(input, delimiter) \o term
    /\ pc' = "written"
    /\ UNCHANGED <<input, opts, delimiter, tok, headerNames, dataStart, width,
                   idx, out, res>>

ParseWritten ==
    /\ pc = "written"
    /\ res' = ParseRows(cleaned, delimiter, opts)
    /\ pc' = "parsed"
    /\ UNCHANGED <<input, opts, cleaned, delimiter, tok, headerNames,
                   dataStart, width, idx, out>>

NextQuote == WriteQuoted \/ ParseWritten

SpecQuote == InitQuote /\ [][NextQuote]_vars

\* C3 as stated: a content with the delimiter, CR, LF or quotes, written as
\* a quoted field with its quotes doubled, parses to one field equal to it.
C3_QuotedFieldRecovered == pc = "parsed" => res = <<input>>

\* C3 amended: the quoted fields parse to one row of fields equal to the
\* contents, except that with skipEmptyLines a row of one field whose
\* content is white space only (a quoted line ending, say) is dropped.
C3_QuotedFieldRecoveredUnlessBlank ==
    pc = "parsed" =>
        res = IF /\ opts.skipEmptyLines
                 /\ Len(input) = 1
                 /\ AllWhiteSpace(input[1])
              THEN <<>>
              ELSE <<input>>

\* A content with a quote, a delimiter and a line feed, recovered
C3_Witness ==
    /\ pc = "parsed"
    /\ \E f \in 1..Len(input) :
          /\ \A ch \in {QUOTE, ",", LF} :
                \E k \in 1..Len(input[f]) : input[f][k] = ch
          /\ Len(res) = 1
          /\ res[1][f] = input[f]

---------------------------------------------------------------------------
(* The same text with LF and with CRLF line endings *)

LinePieces == {<<"a">>, <<",">>, <<";">>, <<LF>>, <<QUOTE>>, <<"#">>}
MaxLinePieces == 4

\* The text with every line ending LF written as CRLF
RECURSIVE ToCRLF(_)
ToCRLF(text) ==
    IF text = <<>> THEN <<>>
    ELSE (IF Head(text) = LF THEN <<CR, LF>> ELSE <<Head(text)>>)
         \o ToCRLF(Tail(text))

InitLines ==
    /\ pc = "start"
    /\ input \in TextsOver(LinePieces, MaxLinePieces)
    /\ opts \in [delimiter : {NoDelimiter},
                 headers : {HeadersTrue, HeadersFalse},
                 preserveHeaderCase : {FALSE},
                 comment : {<<>>, <<"#">>},
                 skipEmptyLines : BOOLEAN,
                 defval : {NullV},
                 inferTypes : {FALSE},
                 trimCells : BOOLEAN]
    /\ Unset

ParseBoth ==
    /\ pc = "start"
    /\ res' = [lf |-> ParseCSV(input, opts),
               crlf |-> ParseCSV(ToCRLF(input), opts)]
    /\ pc' = "parsed"
    /\ UNCHANGED <<input, opts, cleaned, delimiter, tok, headerNames,
                   dataStart, width, idx, out>>

SpecLines == InitLines /\ [][ParseBoth]_vars

\* The state of the tokenizer after n iterations of its loop
RECURSIVE StateAfter(_, _, _, _)
StateAfter(text, d, o, n) ==
    IF n = 0 THEN TokInit
    ELSE LET s == StateAfter(text, d, o, n - 1)
         IN  IF s.i <= Len(text) THEN LoopBody(text, d, o, s) ELSE s

\* The tokenizer meets a line feed of the text inside quotes
QuotedLineFeed(text, o) ==
    LET c == StripBOM(text)
        d == ChosenDelimiter(c, o)
    IN  \E n \in 0..Len(c) :
            LET s == StateAfter(c, d, o, n)
            IN  s.i <= Len(c) /\ s.inQuotes /\ c[s.i] = LF

\* C6 as stated: a text with LF line endings and the same text with CRLF
\* line endings give the same records under the same options.
C6_LineEndingNeutral == pc = "parsed" => res.lf = res.crlf

\* C6 amended: they give the same records when no line ending of the text
\* is inside a quoted field (a quoted line ending is content, kept as is).
C6_LineEndingNeutralOutsideQuotes ==
    (pc = "parsed" /\ ~QuotedLineFeed(input, opts)) => res.lf = res.crlf

\* A text of several lines that starts with a comment line, with records
C6_Witness ==
    /\ pc = "parsed"
    /\ ~QuotedLineFeed(input, opts)
    /\ opts.comment = <<"#">>
    /\ Len(input) > 0
    /\ input[1] = "#"
    /\ Cardinality({k \in 1..Len(input) : input[k] = LF}) >= 2
    /\ Len(res.crlf) >= 1

---------------------------------------------------------------------------
(* detectDelimiter on a text *)

DetectPieces == {<<LF>>, <<"a", CR>>, <<",">>, <<";">>, <<"|">>}
MaxDetectPieces == 6

InitDetect ==
    /\ pc = "detect"
    /\ input \in TextsOver(DetectPieces, MaxDetectPieces)
    /\ opts = <<>>
    /\ Unset

Detect ==
    /\ pc = "detect"
    /\ res' = DetectDelimiter(input)
    /\ pc' = "detected"
    /\ UNCHANGED <<input, opts, cleaned, delimiter, tok, headerNames,
                   dataStart, width, idx, out>>

SpecDetect == InitDetect /\ [][Detect]_vars

\* The lines of a text split on CR, LF or CRLF
RECURSIVE RelaxedSplitFrom(_, _, _)
RelaxedSplitFrom(s, k, cur) ==
    IF k > Len(s) THEN <<cur>>
    ELSE IF s[k] = CR /\ k + 1 <= Len(s) /\ s[k + 1] = LF
         THEN <<cur>> \o RelaxedSplitFrom(s, k + 2, <<>>)
    ELSE IF s[k] \in {CR, LF} THEN <<cur>> \o RelaxedSplitFrom(s, k + 1, <<>>)
    ELSE RelaxedSplitFrom(s, k + 1, Append(cur, s[k]))

\* The first n elements of a sequence (all of them when it is shorter)
FirstN(ls, n) == SubSeq(ls, 1, IF Len(ls) < n THEN Len(ls) ELSE n)

\* The non-empty elements of a sequence, in order
NonEmpty(ls) ==
    LET keep == {k \in 1..Len(ls) : ls[k] # <<>>}
        pos(j) == CHOOSE k \in keep :
                     Cardinality({k2 \in keep : k2 < k}) = j - 1
    IN  [j \in 1..Cardinality(keep) |-> ls[pos(j)]]

\* The columns a candidate gives over a sample, all lines together
TotalColumns(sample, d) ==
    Len(sample)
    + Cardinality({p \in UNION {{l} \X (1..Len(sample[l])) :
                                    l \in 1..Len(sample)} :
                      sample[p[1]][p[2]] = d})

\* The candidate with the highest average column count over the sample, the
\* earliest one among equals; comma when none averages more than one column
\* or the sample is empty
BestCandidate(sample) ==
    IF \A c \in 1..Len(Candidates) :
          TotalColumns(sample, Candidates[c]) <= Len(sample)
    THEN ","
    ELSE Candidates[CHOOSE c \in 1..Len(Candidates) :
            /\ \A c2 \in 1..Len(Candidates) :
                  TotalColumns(sample, Candidates[c2])
                     <= TotalColumns(sample, Candidates[c])
            /\ \A c2 \in 1..(c - 1) :
                  TotalColumns(sample, Candidates[c2])
                     < TotalColumns(sample, Candidates[c])]

\* C7 as stated: the sample is up to the first 5 non-empty lines of the
\* text, the lines split on CR, LF or CRLF
C7_BestOverFirstNonEmptyLines ==
    pc = "detected" =>
        res = BestCandidate(FirstN(NonEmpty(RelaxedSplitFrom(input, 1, <<>>)),
                                   SampleLimit))

\* The pieces of a text between its line feeds, a "\r" right before a line
\* feed not counted
LineFeedPieces(s) ==
    LET ends == {k \in 1..Len(s) : s[k] = LF} \cup {Len(s) + 1}
        end(j) == CHOOSE k \in ends :
                     Cardinality({k2 \in ends : k2 < k}) = j - 1
        start(j) == IF j = 1 THEN 1 ELSE end(j - 1) + 1
        stop(j) == IF /\ end(j) <= Len(s)
                      /\ end(j) > start(j)
                      /\ s[end(j) - 1] = CR
                   THEN end(j) - 2 ELSE end(j) - 1
    IN  [j \in 1..Cardinality(ends) |-> SubSeq(s, start(j), stop(j))]

\* C7 amended: the sample is the non-empty ones among the first 5 pieces of
\* the text split on LF or CRLF (a lone CR does not end a line, and an empty
\* line among the first 5 takes one of the 5 places); over that sample the
\* candidate with the highest average column count wins, the earliest among
\* equals, comma when none averages more than one column or the sample is
\* empty
C7_BestOverFirstFivePieces ==
    pc = "detected" =>
        /\ Sample(input) = NonEmpty(FirstN(LineFeedPieces(input), SampleLimit))
        /\ res = BestCandidate(Sample(input))
        /\ \A c \in 1..Len(Candidates) :
              (/\ TotalColumns(Sample(input), Candidates[c]) > Len(Sample(input))
               /\ \A c2 \in 1..Len(Candidates) : c2 # c =>
                     TotalColumns(Sample(input), Candidates[c2])
                        < TotalColumns(Sample(input), Candidates[c]))
                 => res = Candidates[c]

\* A text of which the semicolon was detected against commas and pipes in
\* its sample
C7_Witness ==
    /\ pc = "detected"
    /\ res = ";"
    /\ Len(Sample(input)) >= 2
    /\ TotalColumns(Sample(input), ",") > Len(Sample(input))
    /\ TotalColumns(Sample(input), "|") > Len(Sample(input))

---------------------------------------------------------------------------
(* Type inference on one cell *)

CellPieces == {<<SPACE>>, <<"t", "r", "u", "e">>, <<"F", "A", "L", "S", "E">>,
               <<"N", "u", "l", "l">>, <<"1">>, <<"0">>, <<"-">>, <<".">>,
               <<"e">>, <<"x">>}
MaxCellPieces == 3

InitCell ==
    /\ pc = "cell"
    /\ input \in TextsOver(CellPieces, MaxCellPieces)
    /\ opts \in [inferTypes : {TRUE}, trimCells : BOOLEAN, defval : {NullV}]
    /\ Unset

\* Lines 70-72 on a row whose only cell is the input
InferCell ==
    /\ pc = "cell"
    /\ res' = CellValue(<<input>>, 0, opts)
    /\ pc' = "inferred"
    /\ UNCHANGED <<input, opts, cleaned, delimiter, tok, headerNames,
                   dataStart, width, idx, out>>

SpecCell == InitCell /\ [][InferCell]_vars

\* C9: with inferTypes a cell string gives exactly one result, by the rules
\* in order: the empty string stays the empty string, true/false in any case
\* a boolean, null in any case null, a string of the number pattern a
\* number, and any other string the cell string unchanged: trimmed only when
\* trimCells is set.  (The patterns are read on the trimmed string, as the
\* code reads them.)
C9_InferenceByRules ==
    pc = "inferred" =>
        LET s == Trim(input) IN
        /\ res.t \in {"string", "boolean", "null", "number"}
        /\ s = <<>> => res = StrV(<<>>)
        /\ ToLowerCase(s) = <<"t", "r", "u", "e">> => res = BoolV(TRUE)
        /\ ToLowerCase(s) = <<"f", "a", "l", "s", "e">> => res = BoolV(FALSE)
        /\ ToLowerCase(s) = <<"n", "u", "l", "l">> => res = NullV
        /\ NumberParts(s).ok => res.t = "number"
        /\ (/\ s # <<>>
            /\ ToLowerCase(s) \notin {<<"t", "r", "u", "e">>,
                                      <<"f", "a", "l", "s", "e">>,
                                      <<"n", "u", "l", "l">>}
            /\ ~NumberParts(s).ok)
              => res = StrV(IF opts.trimCells THEN s ELSE input)

=============================================================================
